---- MODULE Spec2Model ----
(***************************************************************************)
(* A model of olc_fps_rs (src/src/main.rs): a console ray caster.  The     *)
(* main loop reads the keys, moves the player (handle_controls), renders   *)
(* the 3D view column by column (update_screen), writes a stats line,      *)
(* draws the minimap (draw_map) and hands the buffer to the console.       *)
(*                                                                         *)
(* f32 values are modelled as a binary floating-point format scaled down   *)
(* to MantBits significant bits over a finest grid of 2^-FracBits: a value *)
(* is the integer number of grid units it holds, every arithmetic          *)
(* operation rounds its exact result to the nearest representable value,   *)
(* ties to even, as IEEE-754 does.                                         *)
(***************************************************************************)
EXTENDS Integers, Sequences, FiniteSets, TLC

(***************************************************************************)
(* The f32 model.                                                          *)
(***************************************************************************)
FracBits == 10
MantBits == 13

One == 2^FracBits
\* The least magnitude, in grid units, that needs more than MantBits bits.
MantLimit == 2^MantBits

Abs(n) == IF n < 0 THEN -n ELSE n

\* n / d (d > 0) rounded to the nearest integer, ties to the even one.
RoundDiv(n, d) ==
    LET q == n \div d
        r == n % d
    IN  IF 2 * r < d THEN q
        ELSE IF 2 * r > d THEN q + 1
        ELSE IF q % 2 = 0 THEN q ELSE q + 1

\* The spacing of the representable values around magnitude m (in grid units):
\* 1 below 2^MantBits, doubling with every binade above.
RECURSIVE Quantum(_)
Quantum(m) == IF m < MantLimit THEN 1 ELSE 2 * Quantum(m \div 2)

\* The exact rational n / d (d > 0), in grid units, rounded to a representable value.
Rnd(n, d) ==
    LET q == Quantum(Abs(n) \div d)
    IN  q * RoundDiv(n, d * q)

FAdd(a, b) == Rnd(a + b, 1)
FSub(a, b) == Rnd(a - b, 1)
FMul(a, b) == Rnd(a * b, One)
\* b # 0
FDiv(a, b) == IF b > 0 THEN Rnd(a * One, b) ELSE Rnd(-(a * One), -b)

\* An integer or a decimal literal num/den as an f32.
Lit(num, den) == Rnd(num * One, den)

\* `v as usize`: truncation toward zero, saturating at 0 for a negative value.
AsUsize(v) == IF v < 0 THEN 0 ELSE v \div One
\* `v as i32`: truncation toward zero.
AsI32(v) == IF v < 0 THEN -((-v) \div One) ELSE v \div One

(***************************************************************************)
(* sin and cos.  The argument is reduced to a quadrant on a grid four      *)
(* times finer than the format's, the quadrant value comes from the Taylor *)
(* polynomial of sin (first half of the quadrant) or cos (second half),    *)
(* and the result is rounded back to the format.  pi is 355/113.           *)
(***************************************************************************)
Fine == 4 * One
HalfPiFine == RoundDiv(355 * 2 * One, 113)

SinPoly(t) ==
    LET z  == RoundDiv(t * t, Fine)
        p4 == Fine - RoundDiv(z, 72)
        p3 == Fine - RoundDiv(z * p4, 42 * Fine)
        p2 == Fine - RoundDiv(z * p3, 20 * Fine)
        p1 == Fine - RoundDiv(z * p2, 6 * Fine)
    IN  RoundDiv(t * p1, Fine)

CosPoly(t) ==
    LET z  == RoundDiv(t * t, Fine)
        p4 == Fine - RoundDiv(z, 56)
        p3 == Fine - RoundDiv(z * p4, 30 * Fine)
        p2 == Fine - RoundDiv(z * p3, 12 * Fine)
    IN  Fine - RoundDiv(z * p2, 2 * Fine)

\* sin of t, 0 <= t <= HalfPiFine, both on the fine grid.
SinQuadrant(t) ==
    IF 2 * t <= HalfPiFine THEN SinPoly(t) ELSE CosPoly(HalfPiFine - t)

Sin(a) ==
    LET r == (4 * a) % (4 * HalfPiFine)
        k == r \div HalfPiFine
        t == r % HalfPiFine
        s == CASE k = 0 -> SinQuadrant(t)
               [] k = 1 -> SinQuadrant(HalfPiFine - t)
               [] k = 2 -> -SinQuadrant(t)
               [] OTHER -> -SinQuadrant(HalfPiFine - t)
    IN  RoundDiv(s, 4)

Cos(a) ==
    LET r == (4 * a) % (4 * HalfPiFine)
        k == r \div HalfPiFine
        t == r % HalfPiFine
        s == CASE k = 0 -> SinQuadrant(HalfPiFine - t)
               [] k = 1 -> -SinQuadrant(t)
               [] k = 2 -> -SinQuadrant(HalfPiFine - t)
               [] OTHER -> SinQuadrant(t)
    IN  RoundDiv(s, 4)

\* The largest s with s * s <= n, by bisection on lo <= s < hi.
RECURSIVE IsqrtIn(_, _, _)
IsqrtIn(n, lo, hi) ==
    IF hi - lo <= 1 THEN lo
    ELSE LET mid == (lo + hi) \div 2
         IN  IF mid * mid <= n THEN IsqrtIn(n, mid, hi) ELSE IsqrtIn(n, lo, mid)

\* sqrt of v >= 0, rounded to the nearest representable value.
FSqrt(v) ==
    LET n == v * One
        s == IsqrtIn(n, 0, 46341)
    IN  Rnd(IF n - s * s > s THEN s + 1 ELSE s, 1)

\* acos of c, -One <= c <= One: the least angle t in 0..pi whose cos is at
\* most c, by bisection (cos decreases on 0..pi); lo is below it, hi is not.
RECURSIVE AcosIn(_, _, _)
AcosIn(c, lo, hi) ==
    IF hi - lo <= 1 THEN hi
    ELSE LET mid == (lo + hi) \div 2
         IN  IF Cos(mid) <= c THEN AcosIn(c, lo, mid) ELSE AcosIn(c, mid, hi)

Acos(c) == IF Cos(0) <= c THEN 0 ELSE AcosIn(c, 0, Lit(355, 113))

(***************************************************************************)
(* Program constants.                                                      *)
(***************************************************************************)
SCREEN_WIDTH == 120
SCREEN_HEIGHT == 40
SCREEN_SIZE == SCREEN_WIDTH * SCREEN_HEIGHT

MAP_HEIGHT == 16
MAP_WIDTH == 16

\* std::f32::consts::PI / 4.0
FOV == FDiv(Lit(355, 113), Lit(4, 1))

DEPTH == Lit(16, 1)

\* The step of the ray march, 0.1, and the boundary threshold, 0.01.
Step == Lit(1, 10)
Bound == Lit(1, 100)

\* The UTF-16 code units the program writes.
Nul == 0
Space == 32
Hash == 35
Minus == 45
Dot == 46
LetterP == 80
LetterX == 120
LightShade == 9617
MediumShade == 9618
DarkShade == 9619
FullBlock == 9608

\* init_map: the rows pushed in order, then collected into one vector.
MapRows ==
    << <<Hash, Hash, Hash, Hash, Hash, Hash, Hash, Hash, Hash, Hash, Hash, Hash, Hash, Hash, Hash, Hash>>,
       <<Hash, Dot, Dot, Dot, Dot, Dot, Dot, Dot, Dot, Dot, Dot, Dot, Dot, Dot, Dot, Hash>>,
       <<Hash, Dot, Dot, Dot, Dot, Dot, Dot, Dot, Dot, Dot, Dot, Dot, Dot, Dot, Dot, Hash>>,
       <<Hash, Dot, Dot, Dot, Dot, Dot, Dot, Dot, Dot, Dot, Dot, Hash, Dot, Dot, Dot, Hash>>,
       <<Hash, Dot, Dot, Dot, Dot, Dot, Dot, Dot, Dot, Dot, Dot, Hash, Dot, Dot, Dot, Hash>>,
       <<Hash, Dot, Dot, Dot, Dot, Dot, Dot, Dot, Dot, Dot, Dot, Dot, Dot, Dot, Dot, Hash>>,
       <<Hash, Dot, Dot, Dot, Dot, Dot, Dot, Dot, Dot, Dot, Dot, Dot, Dot, Dot, Dot, Hash>>,
       <<Hash, Dot, Dot, Dot, Dot, Dot, Dot, Dot, Dot, Dot, Dot, Dot, Dot, Dot, Dot, Hash>>,
       <<Hash, Dot, Dot, Dot, Dot, Dot, Dot, Dot, Dot, Dot, Dot, Dot, Dot, Dot, Dot, Hash>>,
       <<Hash, Dot, Dot, Dot, Dot, Dot, Dot, Dot, Dot, Dot, Dot, Dot, Dot, Dot, Dot, Hash>>,
       <<Hash, Dot, Dot, Dot, Dot, Dot, Dot, Dot, Dot, Dot, Dot, Dot, Dot, Dot, Dot, Hash>>,
       <<Hash, Dot, Dot, Dot, Dot, Dot, Dot, Dot, Dot, Dot, Dot, Dot, Dot, Dot, Dot, Hash>>,
       <<Hash, Dot, Dot, Dot, Dot, Dot, Dot, Dot, Hash, Hash, Hash, Hash, Hash, Hash, Hash, Hash>>,
       <<Hash, Dot, Dot, Dot, Dot, Dot, Dot, Dot, Dot, Dot, Dot, Dot, Dot, Dot, Dot, Hash>>,
       <<Hash, Dot, Dot, Dot, Dot, Dot, Dot, Dot, Dot, Dot, Dot, Dot, Dot, Dot, Dot, Hash>>,
       <<Hash, Hash, Hash, Hash, Hash, Hash, Hash, Hash, Hash, Hash, Hash, Hash, Hash, Hash, Hash, Hash>> >>

\* The map vector, indexed from 0 like the Vec<char>.
init_map ==
    [i \in 0 .. (Len(MapRows) * MAP_WIDTH - 1) |-> MapRows[(i \div MAP_WIDTH) + 1][(i % MAP_WIDTH) + 1]]

\* The index is_wall reads; the read panics when it is not an index of the map.
MapIndex(x, y) == y * MAP_WIDTH + x
IndexInMap(x, y) == MapIndex(x, y) \in DOMAIN init_map
is_wall(x, y) == init_map[MapIndex(x, y)] = Hash

\* Whether (x, y) is a cell of the map.
InBounds(x, y) == x >= 0 /\ x < MAP_WIDTH /\ y >= 0 /\ y < MAP_HEIGHT

(***************************************************************************)
(* update_screen: the ray of one screen column.                            *)
(***************************************************************************)
HalfFov == FDiv(FOV, Lit(2, 1))

RayAngle(a, x) ==
    FAdd(FSub(a, HalfFov), FMul(FDiv(Lit(x, 1), Lit(SCREEN_WIDTH, 1)), FOV))

\* One corner of the hit cell, from the vector (vx, vy) to it: its distance d
\* from the player and the dot product of the ray with the unit vector to
\* it.  With d = 0 the divisions are 0/0 and dot is NaN.
CornerAt(eye_x, eye_y, vx, vy, d) ==
    IF d = 0 THEN [d |-> d, nan |-> TRUE, dot |-> 0]
    ELSE [d |-> d, nan |-> FALSE,
          dot |-> FAdd(FDiv(FMul(eye_x, vx), d), FDiv(FMul(eye_y, vy), d))]

CornerOf(eye_x, eye_y, vx, vy) ==
    CornerAt(eye_x, eye_y, vx, vy, FSqrt(FAdd(FMul(vx, vx), FMul(vy, vy))))

Corner(px, py, eye_x, eye_y, test_x, test_y, tx, ty) ==
    CornerOf(eye_x, eye_y,
             FSub(FAdd(Lit(test_x, 1), Lit(tx, 1)), px),
             FSub(FAdd(Lit(test_y, 1), Lit(ty, 1)), py))

\* The vector p as pushed: tx outer, ty inner.
Corners(px, py, eye_x, eye_y, test_x, test_y) ==
    << Corner(px, py, eye_x, eye_y, test_x, test_y, 0, 0),
       Corner(px, py, eye_x, eye_y, test_x, test_y, 0, 1),
       Corner(px, py, eye_x, eye_y, test_x, test_y, 1, 0),
       Corner(px, py, eye_x, eye_y, test_x, test_y, 1, 1) >>

\* A variant of the comparison that orders the corners by their angle to
\* the ray, the smallest first.
CornerLessByAngle(a, b) == a.dot > b.dot

\* The comparison of p.sort_by: a goes before b.
CornerLess(a, b) == a.d < b.d

\* e inserted into the sorted s after every element it does not go before.
RECURSIVE Insert(_, _)
Insert(s, e) ==
    IF s = <<>> THEN <<e>>
    ELSE IF CornerLess(e, s[Len(s)]) THEN Append(Insert(SubSeq(s, 1, Len(s) - 1), e), s[Len(s)])
    ELSE Append(s, e)

\* p.sort_by: a stable sort.
RECURSIVE SortCorners(_)
SortCorners(p) ==
    IF p = <<>> THEN <<>>
    ELSE Insert(SortCorners(SubSeq(p, 1, Len(p) - 1)), p[Len(p)])

\* c.1.acos() < bound: false for a NaN, and acos is NaN outside -1..1.
AcosBelow(c, bound) ==
    /\ ~c.nan
    /\ c.dot >= -One
    /\ c.dot <= One
    /\ Acos(c.dot) < bound

Boundary(p) == AcosBelow(p[1], Bound) \/ AcosBelow(p[2], Bound)

\* The wall hit: the corners, sorted, decide boundary.
WallHit(distance_to_wall, n, test_x, test_y, calls, p) ==
    [distance |-> distance_to_wall, boundary |-> Boundary(SortCorners(p)),
     iterations |-> n + 1, exit |-> "wall", cell |-> <<test_x, test_y>>,
     calls |-> calls \cup {<<test_x, test_y>>}, p |-> p]

\* The body of the march loop once the cell under test is known: exit is
\* "none" when the loop goes on.
MarchTest(px, py, eye_x, eye_y, distance_to_wall, n, calls, test_x, test_y) ==
    IF test_x < 0 \/ test_x >= MAP_WIDTH \/ test_y < 0 \/ test_y >= MAP_HEIGHT
    THEN [distance |-> DEPTH, boundary |-> FALSE, iterations |-> n + 1,
          exit |-> "out", cell |-> <<test_x, test_y>>, calls |-> calls, p |-> <<>>]
    ELSE IF is_wall(test_x, test_y)
    THEN WallHit(distance_to_wall, n, test_x, test_y, calls,
                 Corners(px, py, eye_x, eye_y, test_x, test_y))
    ELSE [distance |-> distance_to_wall, boundary |-> FALSE, iterations |-> n + 1,
          exit |-> "none", cell |-> <<test_x, test_y>>,
          calls |-> calls \cup {<<test_x, test_y>>}, p |-> <<>>]

MarchSample(px, py, eye_x, eye_y, distance_to_wall, n, calls) ==
    MarchTest(px, py, eye_x, eye_y, distance_to_wall, n, calls,
              AsI32(FAdd(px, FMul(eye_x, distance_to_wall))),
              AsI32(FAdd(py, FMul(eye_y, distance_to_wall))))

\* One iteration of the march loop, entered with distance d after n
\* iterations.
MarchStep(px, py, eye_x, eye_y, d, n, calls) ==
    MarchSample(px, py, eye_x, eye_y, FAdd(d, Step), n, calls)

\* At most k iterations of the loop.
RECURSIVE MarchBlock(_, _, _, _, _, _, _, _)
MarchBlock(px, py, eye_x, eye_y, d, n, calls, k) ==
    LET r == MarchStep(px, py, eye_x, eye_y, d, n, calls)
    IN  IF r.exit # "none" \/ k = 1 THEN r
        ELSE MarchBlock(px, py, eye_x, eye_y, r.distance, r.iterations, r.calls, k - 1)

\* The march loop: it has no bound of its own and runs until an iteration
\* breaks.  (It is evaluated sixteen iterations at a time, which keeps the
\* evaluation stack shallow and changes nothing else.)
RECURSIVE March(_, _, _, _, _, _, _)
March(px, py, eye_x, eye_y, d, n, calls) ==
    LET r == MarchBlock(px, py, eye_x, eye_y, d, n, calls, 16)
    IN  IF r.exit # "none" THEN r
        ELSE March(px, py, eye_x, eye_y, r.distance, r.iterations, r.calls)

CastAt(player, ray_angle) ==
    March(player.x, player.y, Sin(ray_angle), Cos(ray_angle), 0, 0, {})

CastRay(player, x) == CastAt(player, RayAngle(player.a, x))

(***************************************************************************)
(* update_screen: the glyphs of one column.                                *)
(***************************************************************************)
Ceiling(distance_to_wall) ==
    AsI32(FSub(FDiv(Lit(SCREEN_HEIGHT, 1), Lit(2, 1)),
               FDiv(Lit(SCREEN_HEIGHT, 1), distance_to_wall)))

Floor(distance_to_wall) == SCREEN_HEIGHT - Ceiling(distance_to_wall)

\* A variant of the match with the glyphs of the first two arms exchanged.
WallShadeExchanged(d) ==
    IF d <= FDiv(DEPTH, Lit(4, 1)) THEN DarkShade
    ELSE IF d < FDiv(DEPTH, Lit(3, 1)) THEN FullBlock
    ELSE IF d < FDiv(DEPTH, Lit(2, 1)) THEN MediumShade
    ELSE IF d < DEPTH THEN LightShade
    ELSE Space

\* The match on distance_to_wall: the first arm whose guard holds.
WallShade(d) ==
    IF d <= FDiv(DEPTH, Lit(4, 1)) THEN FullBlock
    ELSE IF d < FDiv(DEPTH, Lit(3, 1)) THEN DarkShade
    ELSE IF d < FDiv(DEPTH, Lit(2, 1)) THEN MediumShade
    ELSE IF d < DEPTH THEN LightShade
    ELSE Space

WallGlyph(distance_to_wall, boundary) ==
    IF boundary THEN Space ELSE WallShade(distance_to_wall)

FloorGlyph(y) ==
    LET half == FDiv(Lit(SCREEN_HEIGHT, 1), Lit(2, 1))
        floor_distance == FSub(Lit(1, 1), FDiv(FSub(Lit(y, 1), half), half))
    IN  IF floor_distance < Lit(25, 100) THEN Hash
        ELSE IF floor_distance < Lit(5, 10) THEN LetterX
        ELSE IF floor_distance < Lit(75, 100) THEN Minus
        ELSE IF floor_distance < Lit(9, 10) THEN Dot
        ELSE Space

\* A variant of the row test in which the wall band starts at the ceiling
\* row.
RowGlyphWallAtCeiling(y, distance_to_wall, boundary) ==
    IF y < Ceiling(distance_to_wall) THEN Space
    ELSE IF y >= Ceiling(distance_to_wall) /\ y <= Floor(distance_to_wall)
    THEN WallGlyph(distance_to_wall, boundary)
    ELSE FloorGlyph(y)

\* What update_screen writes at row y of a column.
RowGlyph(y, distance_to_wall, boundary) ==
    LET ceiling == Ceiling(distance_to_wall)
        floor   == Floor(distance_to_wall)
    IN  IF y < ceiling THEN Space
        ELSE IF y > ceiling /\ y <= floor THEN WallGlyph(distance_to_wall, boundary)
        ELSE FloorGlyph(y)

\* The column of a ray: the glyph of each row, top down.
ColumnStrip(distance_to_wall, boundary) ==
    [y \in 0 .. (SCREEN_HEIGHT - 1) |-> RowGlyph(y, distance_to_wall, boundary)]

\* The rays of columns lo .. hi, in order.
RECURSIVE RaysOf(_, _, _)
RaysOf(player, lo, hi) ==
    IF lo = hi THEN <<CastRay(player, lo)>>
    ELSE LET mid == (lo + hi) \div 2
         IN  RaysOf(player, lo, mid) \o RaysOf(player, mid + 1, hi)

\* The buffer with every cell of the SCREEN_SIZE first rewritten from its
\* column's ray, and the cells is_wall was asked about.
Composite(screen, rays) ==
    [screen |->
        [i \in DOMAIN screen |->
            IF i < SCREEN_SIZE
            THEN RowGlyph(i \div SCREEN_WIDTH,
                          rays[(i % SCREEN_WIDTH) + 1].distance,
                          rays[(i % SCREEN_WIDTH) + 1].boundary)
            ELSE screen[i]],
     calls |-> UNION {rays[x].calls : x \in 1 .. SCREEN_WIDTH}]

update_screen(screen, player) == Composite(screen, RaysOf(player, 0, SCREEN_WIDTH - 1))

\* init_screen: SCREEN_SIZE + 1 zeros.
init_screen == [i \in 0 .. SCREEN_SIZE |-> Nul]

\* A variant of draw_map that starts the minimap at the top row.
draw_map_at_top(screen, player) ==
    [i \in DOMAIN screen |->
        LET nx == i % SCREEN_WIDTH
            ny == i \div SCREEN_WIDTH
        IN  IF nx < MAP_WIDTH /\ ny < MAP_HEIGHT
            THEN IF AsUsize(player.y) = ny /\ AsUsize(player.x) = nx
                 THEN LetterP
                 ELSE init_map[ny * MAP_WIDTH + nx]
            ELSE screen[i]]

\* draw_map: the minimap, one row below the top.
draw_map(screen, player) ==
    [i \in DOMAIN screen |->
        LET row == i \div SCREEN_WIDTH
            nx  == i % SCREEN_WIDTH
            ny  == row - 1
        IN  IF nx < MAP_WIDTH /\ ny >= 0 /\ ny < MAP_HEIGHT
            THEN IF AsUsize(player.y) = ny /\ AsUsize(player.x) = nx
                 THEN LetterP
                 ELSE init_map[ny * MAP_WIDTH + nx]
            ELSE screen[i]]

\* draw_screen_to_console: the terminator, then the buffer handed over.
draw_screen_to_console(screen) == [screen EXCEPT ![SCREEN_SIZE - 1] = Nul]

(***************************************************************************)
(* handle_controls.                                                        *)
(***************************************************************************)
rotation_speed == Lit(75, 100)
move_speed == Lit(5, 1)

\* The keys GetAsyncKeyState reports down.
Keys == {"A", "D", "W", "S"}

\* player.a.sin() * move_speed * delta_time, and the same with cos.
XOffset(a, delta_time) == FMul(FMul(Sin(a), move_speed), delta_time)
YOffset(a, delta_time) == FMul(FMul(Cos(a), move_speed), delta_time)

TurnBy(delta_time) == FMul(FMul(move_speed, rotation_speed), delta_time)

\* One of the two move blocks: the offset is added (dir = 1, key W) or
\* subtracted (dir = -1, key S), is_wall is asked about the cell of the new
\* position, and on a wall the offset is taken back by the opposite
\* operation.  The map read panics on an index outside the vector, which
\* ends the program with the new position in place.
MoveCheck(st, dir, x_offset, y_offset, nx, ny, cx, cy) ==
    IF ~IndexInMap(cx, cy)
    THEN [st EXCEPT !.player.x = nx, !.player.y = ny,
                    !.calls = Append(st.calls, <<cx, cy>>), !.panicked = TRUE]
    ELSE IF is_wall(cx, cy)
    THEN [st EXCEPT
            !.player.x = IF dir = 1 THEN FSub(nx, x_offset) ELSE FAdd(nx, x_offset),
            !.player.y = IF dir = 1 THEN FSub(ny, y_offset) ELSE FAdd(ny, y_offset),
            !.calls = Append(st.calls, <<cx, cy>>),
            !.rejected = st.rejected \cup {IF dir = 1 THEN "W" ELSE "S"}]
    ELSE [st EXCEPT !.player.x = nx, !.player.y = ny,
                    !.calls = Append(st.calls, <<cx, cy>>)]

MoveTo(st, dir, x_offset, y_offset, nx, ny) ==
    MoveCheck(st, dir, x_offset, y_offset, nx, ny, AsUsize(nx), AsUsize(ny))

MoveBy(st, dir, x_offset, y_offset) ==
    MoveTo(st, dir, x_offset, y_offset,
           IF dir = 1 THEN FAdd(st.player.x, x_offset) ELSE FSub(st.player.x, x_offset),
           IF dir = 1 THEN FAdd(st.player.y, y_offset) ELSE FSub(st.player.y, y_offset))

MoveBlock(st, dir, delta_time) ==
    MoveBy(st, dir, XOffset(st.player.a, delta_time), YOffset(st.player.a, delta_time))

\* The four if blocks of handle_controls, in order.  A panic in the W block
\* ends the program before the S block.
KeyA(st, held, delta_time) ==
    IF "A" \in held
    THEN [st EXCEPT !.player.a = FSub(st.player.a, TurnBy(delta_time))]
    ELSE st

KeyD(st, held, delta_time) ==
    IF "D" \in held
    THEN [st EXCEPT !.player.a = FAdd(st.player.a, TurnBy(delta_time))]
    ELSE st

KeyW(st, held, delta_time) ==
    IF "W" \in held THEN MoveBlock(st, 1, delta_time) ELSE st

KeyS(st, held, delta_time) ==
    IF "S" \in held /\ ~st.panicked THEN MoveBlock(st, -1, delta_time) ELSE st

\* handle_controls with `held` the keys that are down: the player after it,
\* the cells is_wall was asked about, the moves taken back, and whether a
\* map read panicked.
handle_controls(player, held, delta_time) ==
    KeyS(KeyW(KeyD(KeyA([player |-> player, calls |-> <<>>, rejected |-> {},
                         panicked |-> FALSE],
                        held, delta_time), held, delta_time), held, delta_time),
         held, delta_time)

(***************************************************************************)
(* The stats line: format!("X={}, Y={}, A={}, FPS={}", ...), written from  *)
(* the start of the buffer.  A number is printed as Display prints an f32: *)
(* a sign, the integer digits and, unless the fraction is zero, a point    *)
(* and the fraction's digits.  Characters are UTF-16 code units.           *)
(***************************************************************************)
RECURSIVE Digits(_)
Digits(n) == IF n < 10 THEN <<48 + n>> ELSE Append(Digits(n \div 10), 48 + (n % 10))

\* The decimal digits of r / One, 0 <= r < One.
RECURSIVE FracDigits(_)
FracDigits(r) ==
    IF r = 0 THEN <<>> ELSE <<48 + ((10 * r) \div One)>> \o FracDigits((10 * r) % One)

Display(v) ==
    (IF v < 0 THEN <<Minus>> ELSE <<>>)
        \o Digits(Abs(v) \div One)
        \o (IF Abs(v) % One = 0 THEN <<>> ELSE <<Dot>> \o FracDigits(Abs(v) % One))

\* "X=", ", Y=", ", A=", ", FPS="
Stats(player, delta_time) ==
    <<88, 61>> \o Display(player.x)
        \o <<44, 32, 89, 61>> \o Display(player.y)
        \o <<44, 32, 65, 61>> \o Display(player.a)
        \o <<44, 32, 70, 80, 83, 61>> \o Display(FDiv(Lit(1, 1), delta_time))

\* for (i, c) in stats.chars().enumerate() { screen[i] = c as u16; }
WriteStats(screen, stats) ==
    [i \in DOMAIN screen |-> IF i < Len(stats) THEN stats[i + 1] ELSE screen[i]]

(***************************************************************************)
(* The state.                                                              *)
(***************************************************************************)
VARIABLES
    player,     \* main's Player: x, y, a
    pc,         \* the statement of the loop body that runs next (0: no loop)
    frame,      \* the frames begun
    ctl,        \* the last handle_controls call: its input and what it did
    screen,     \* the screen buffer
    viewCalls,  \* the cells update_screen asked is_wall about, last frame
    writers,    \* the writers of the buffer that ran in this frame, in order
    presented,  \* the buffer as last handed to the console
    ray,        \* the last ray cast on its own
    shade       \* the last column composed on its own

vars == <<player, pc, frame, ctl, screen, viewCalls, writers, presented, ray, shade>>

\* Frames the loop runs, and calls of handle_controls when it is run alone.
MaxFrames == 1
MaxCtlFrames == 3

\* The frame times tried, in units of 2^-FracBits s: about 1 ms, 2 ms,
\* 0.8 s and 2 s; the whole loop is run with the two long ones.
DeltaTimes == {1, 2, 817, 2048}
FrameTimes == {817, 2048}

\* The player as main creates it.
Spawn == [x |-> Lit(8, 1), y |-> Lit(8, 1), a |-> Lit(0, 1)]

NoCall == [before |-> Spawn, held |-> {}, delta_time |-> 0, turned |-> Spawn.a,
           calls |-> <<>>, rejected |-> {}, panicked |-> FALSE, done |-> FALSE]
NoRay == [col |-> -1]
NoShade == [done |-> FALSE]

\* A variant of the loop body with update_screen after the two overlays.
LoopBodyViewLast ==
    <<"handle_controls", "stats", "draw_map", "update_screen", "draw_screen_to_console">>

\* The body of main's loop, statement by statement.
LoopBody ==
    <<"handle_controls", "update_screen", "stats", "draw_map", "draw_screen_to_console">>

At(stmt) == pc \in 1 .. Len(LoopBody) /\ LoopBody[pc] = stmt /\ ~ctl.panicked
Advance ==
    /\ pc' = IF pc = Len(LoopBody) THEN 1 ELSE pc + 1
    /\ frame' = IF pc = Len(LoopBody) THEN frame + 1 ELSE frame

\* What a handle_controls call leaves in player and ctl; turned is the
\* heading the turn keys alone give.
ControlsResult(r, held, delta_time) ==
    /\ player' = r.player
    /\ ctl' = [before |-> player, held |-> held, delta_time |-> delta_time,
               turned |-> KeyD(KeyA([player |-> player], held, delta_time),
                               held, delta_time).player.a,
               calls |-> r.calls, rejected |-> r.rejected,
               panicked |-> r.panicked, done |-> TRUE]

Controlled(held, delta_time) ==
    ControlsResult(handle_controls(player, held, delta_time), held, delta_time)

Init ==
    /\ player = Spawn
    /\ pc = 1
    /\ frame = 0
    /\ ctl = NoCall
    /\ screen = init_screen
    /\ viewCalls = {}
    /\ writers = <<>>
    /\ presented = <<>>
    /\ ray = NoRay
    /\ shade = NoShade

(***************************************************************************)
(* main's loop.                                                            *)
(***************************************************************************)
HandleControls ==
    /\ At("handle_controls")
    /\ frame < MaxFrames
    /\ \E held \in SUBSET Keys, delta_time \in FrameTimes : Controlled(held, delta_time)
    /\ writers' = <<>>
    /\ Advance
    /\ UNCHANGED <<screen, viewCalls, presented, ray, shade>>

UpdateScreen ==
    /\ At("update_screen")
    /\ \E r \in {update_screen(screen, player)} :
          screen' = r.screen /\ viewCalls' = r.calls
    /\ writers' = Append(writers, "update_screen")
    /\ Advance
    /\ UNCHANGED <<player, ctl, presented, ray, shade>>

WriteStatsLine ==
    /\ At("stats")
    /\ screen' = WriteStats(screen, Stats(player, ctl.delta_time))
    /\ writers' = Append(writers, "stats")
    /\ Advance
    /\ UNCHANGED <<player, ctl, viewCalls, presented, ray, shade>>

DrawMap ==
    /\ At("draw_map")
    /\ screen' = draw_map(screen, player)
    /\ writers' = Append(writers, "draw_map")
    /\ Advance
    /\ UNCHANGED <<player, ctl, viewCalls, presented, ray, shade>>

DrawScreenToConsole ==
    /\ At("draw_screen_to_console")
    /\ screen' = draw_screen_to_console(screen)
    /\ presented' = screen'
    /\ Advance
    /\ UNCHANGED <<player, ctl, viewCalls, writers, ray, shade>>

Next ==
    \/ HandleControls
    \/ UpdateScreen
    \/ WriteStatsLine
    \/ DrawMap
    \/ DrawScreenToConsole

Spec == Init /\ [][Next]_vars

(***************************************************************************)
(* handle_controls on its own, call after call from the spawn point: the   *)
(* rest of the loop body only reads the player.                            *)
(***************************************************************************)
ControlsAlone ==
    /\ ~ctl.panicked
    /\ frame < MaxCtlFrames
    /\ \E held \in SUBSET Keys, delta_time \in DeltaTimes : Controlled(held, delta_time)
    /\ frame' = frame + 1
    /\ UNCHANGED <<pc, screen, viewCalls, writers, presented, ray, shade>>

NextCtl == ControlsAlone

SpecCtl == Init /\ [][NextCtl]_vars

(***************************************************************************)
(* The column loop of update_screen on its own, one ray an iteration: the  *)
(* player stands anywhere in an open cell of the map.                      *)
(***************************************************************************)
\* The positions tried: the spawn point, the two ends of the long diagonals
\* of the room, and spots around the wall stubs.
RayPositions ==
    { <<Lit(8, 1), Lit(8, 1)>>, <<Lit(1, 1), Lit(29, 2)>>, <<Lit(25, 2), Lit(1, 1)>>,
      <<Lit(3, 2), Lit(3, 2)>>, <<Lit(5, 1), Lit(7, 2)>>, <<Lit(21, 2), Lit(13, 2)>> }

\* The headings tried: sixteenths of a turn.
RayHeadings == { FDiv(FMul(Lit(k, 1), Lit(355, 113)), Lit(8, 1)) : k \in 0 .. 15 }

RayPlayers ==
    { [x |-> pos[1], y |-> pos[2], a |-> a] : pos \in RayPositions, a \in RayHeadings }

OpenCell(p) ==
    /\ InBounds(AsI32(p.x), AsI32(p.y))
    /\ ~is_wall(AsI32(p.x), AsI32(p.y))

InitRay ==
    /\ player \in {p \in RayPlayers : OpenCell(p)}
    /\ pc = 0
    /\ frame = 0
    /\ ctl = NoCall
    /\ screen = init_screen
    /\ viewCalls = {}
    /\ writers = <<>>
    /\ presented = <<>>
    /\ ray = NoRay
    /\ shade = NoShade

CastColumn ==
    /\ ray.col + 1 < SCREEN_WIDTH
    /\ ray' = [col |-> ray.col + 1, out |-> CastRay(player, ray.col + 1)]
    /\ UNCHANGED <<player, pc, frame, ctl, screen, viewCalls, writers, presented, shade>>

NextRay == CastColumn

SpecRay == InitRay /\ [][NextRay]_vars

(***************************************************************************)
(* One column of update_screen on its own, with the map left open: the     *)
(* march goes on for any number of iterations and then breaks either way,  *)
(* with either value of the flag, and the rows are composed.  A second,    *)
(* nearer or farther, distance is shaded beside the one of the march.      *)
(***************************************************************************)
\* The iterations of the march that are followed.
MaxMarch == 200

\* The distances shaded beside: whole map units, and DEPTH / 3.
NearDistances == { Lit(k, 1) : k \in 1 .. 18 } \cup { FDiv(DEPTH, Lit(3, 1)) }

InitShade ==
    /\ player = Spawn
    /\ pc = 0
    /\ frame = 0
    /\ ctl = NoCall
    /\ screen = init_screen
    /\ viewCalls = {}
    /\ writers = <<>>
    /\ presented = <<>>
    /\ ray = NoRay
    /\ shade \in { [done |-> FALSE, near |-> n, iterations |-> 0, distance_to_wall |-> 0] :
                     n \in NearDistances }

\* The column composed from what the march left.
Composed(distance_to_wall, boundary) ==
    [done |-> TRUE, near |-> shade.near, iterations |-> shade.iterations,
     distance_to_wall |-> distance_to_wall, boundary |-> boundary,
     ceiling |-> Ceiling(distance_to_wall),
     nearWall |-> WallGlyph(shade.near, boundary),
     wall |-> WallGlyph(distance_to_wall, boundary),
     strip |-> ColumnStrip(distance_to_wall, boundary)]

\* An iteration that does not break.
MarchOn ==
    /\ ~shade.done
    /\ shade.iterations < MaxMarch
    /\ shade' = [shade EXCEPT !.iterations = @ + 1,
                              !.distance_to_wall = FAdd(@, Step)]
    /\ UNCHANGED <<player, pc, frame, ctl, screen, viewCalls, writers, presented, ray>>

\* The iteration breaks on a wall cell.
HitWall ==
    /\ ~shade.done
    /\ shade.iterations > 0
    /\ \E boundary \in BOOLEAN : shade' = Composed(shade.distance_to_wall, boundary)
    /\ UNCHANGED <<player, pc, frame, ctl, screen, viewCalls, writers, presented, ray>>

\* The iteration breaks outside the map.
LeaveMap ==
    /\ ~shade.done
    /\ shade.iterations > 0
    /\ shade' = Composed(DEPTH, FALSE)
    /\ UNCHANGED <<player, pc, frame, ctl, screen, viewCalls, writers, presented, ray>>

NextShade == MarchOn \/ HitWall \/ LeaveMap

SpecShade == InitShade /\ [][NextShade]_vars

(***************************************************************************)
(* The ray march: its length (C4), its output (C5) and the boundary flag   *)
(* (C9), checked under SpecRay.                                            *)
(***************************************************************************)
RayCast == ray.col >= 0

\* ceil(DEPTH / step) + 1, in the units of the model.
MarchLimit == (DEPTH + Step - 1) \div Step + 1

\* C4: from any open cell and at any ray angle the march loop leaves through
\* one of its two breaks within ceil(DEPTH / step) + 1 iterations.
C4_MarchWithinLimit ==
    RayCast => ray.out.exit \in {"out", "wall"} /\ ray.out.iterations <= MarchLimit

\* C5: the distance the march gives is never negative and never more than
\* DEPTH.
C5_DistanceSaturates ==
    RayCast => ray.out.distance >= 0 /\ ray.out.distance <= DEPTH

\* The corners of p that come first and second when p is ordered by key,
\* equal keys in the order pushed.
FirstTwoBy(key) ==
    { i \in DOMAIN key :
        Cardinality({ j \in DOMAIN key : key[j] < key[i] \/ (key[j] = key[i] /\ j < i) }) < 2 }

\* The angle between the ray and the vector to a corner; a NaN goes last.
CornerAngle(c) ==
    IF c.nan \/ c.dot < -One \/ c.dot > One THEN 4 * HalfPiFine ELSE Acos(c.dot)

NearestTwo(p) == FirstTwoBy([i \in DOMAIN p |-> p[i].d])
SmallestAngleTwo(p) == FirstTwoBy([i \in DOMAIN p |-> CornerAngle(p[i])])

\* C9 as stated: on a wall hit boundary is true exactly when one of the two
\* corners at the smallest angles to the ray is less than 0.01 rad off it;
\* on an out-of-bounds exit it is false.
C9_BoundaryBySmallestAngles ==
    RayCast =>
        /\ ray.out.exit = "wall" =>
              (ray.out.boundary <=>
                  \E i \in SmallestAngleTwo(ray.out.p) : AcosBelow(ray.out.p[i], Bound))
        /\ ray.out.exit = "out" => ~ray.out.boundary

\* C9 as the code has it: on a wall hit boundary is true exactly when one of
\* the two corners nearest to the player is less than 0.01 rad off the ray;
\* on an out-of-bounds exit it is false.
C9_BoundaryByNearest ==
    RayCast =>
        /\ ray.out.exit = "wall" =>
              (ray.out.boundary <=>
                  \E i \in NearestTwo(ray.out.p) : AcosBelow(ray.out.p[i], Bound))
        /\ ray.out.exit = "out" => ~ray.out.boundary

(***************************************************************************)
(* handle_controls: where it leaves the player (C1), what it asks is_wall  *)
(* (C2) and what a rejected move does (C3).  C1 and C3 are checked under   *)
(* SpecCtl, C2 under Spec.                                                 *)
(***************************************************************************)
Called == ctl.done /\ ~ctl.panicked

\* The map cell the player's position resolves to, as is_wall reads it.
PlayerInWall ==
    /\ IndexInMap(AsUsize(player.x), AsUsize(player.y))
    /\ is_wall(AsUsize(player.x), AsUsize(player.y))

\* C1: after every handle_controls call the player's position, truncated to
\* a cell, is not a wall cell of the map.
C1_NeverInWall == Called => ~PlayerInWall

CellsAsked == { ctl.calls[i] : i \in DOMAIN ctl.calls } \cup viewCalls

\* C2: every is_wall call of the controller and of the ray march is made
\* with a cell inside the map.
C2_CallsInBounds == \A cell \in CellsAsked : InBounds(cell[1], cell[2])

\* C3: when the one move key held is rejected, the position after the call
\* is the position before it and the heading is the one the turn keys give.
C3_RejectionReverts ==
    (Called /\ ctl.rejected # {} /\ Cardinality(ctl.held \cap {"W", "S"}) = 1) =>
        /\ player.x = ctl.before.x
        /\ player.y = ctl.before.y
        /\ player.a = ctl.turned

(***************************************************************************)
(* The rows of a column: the wall shade (C8) and the row at the ceiling    *)
(* (C10), checked under SpecShade.                                         *)
(***************************************************************************)
\* The density order of the wall glyphs.
Density(glyph) ==
    CASE glyph = FullBlock -> 4
      [] glyph = DarkShade -> 3
      [] glyph = MediumShade -> 2
      [] glyph = LightShade -> 1
      [] glyph = Space -> 0

\* C8: in a column that is not a boundary, the wall glyph of the farther of
\* two distances is no denser than the wall glyph of the nearer.
C8_ShadeMonotone ==
    (shade.done /\ ~shade.boundary) =>
        /\ shade.near <= shade.distance_to_wall =>
              Density(shade.wall) <= Density(shade.nearWall)
        /\ shade.distance_to_wall <= shade.near =>
              Density(shade.nearWall) <= Density(shade.wall)

\* C10: when the ceiling row is a row of the screen, it holds the blank
\* glyph, as every row above it does.
C10_CeilingRowBlank ==
    (shade.done /\ shade.ceiling >= 0 /\ shade.ceiling < SCREEN_HEIGHT) =>
        \A y \in 0 .. shade.ceiling : shade.strip[y] = Space

\* C8, C10: columns in which the case arises.
C8_Witness ==
    /\ shade.done /\ ~shade.boundary
    /\ shade.near < shade.distance_to_wall
    /\ shade.nearWall = FullBlock
    /\ shade.wall = DarkShade

C10_Witness ==
    /\ shade.done /\ ~shade.boundary
    /\ shade.ceiling > 0 /\ shade.ceiling < SCREEN_HEIGHT
    /\ shade.strip[shade.ceiling] = Space
    /\ shade.strip[shade.ceiling + 1] = FullBlock

\* C9: a wall hit in which a corner behind the two nearest lies along the
\* ray and neither of the two nearest does.
C9_Witness ==
    /\ RayCast /\ ray.out.exit = "wall" /\ ~ray.out.boundary
    /\ \E i \in SmallestAngleTwo(ray.out.p) : AcosBelow(ray.out.p[i], Bound)

(***************************************************************************)
(* The frame: the order of the writers (C6) and the minimap at the handoff *)
(* (C7), checked under Spec.                                               *)
(***************************************************************************)
\* The buffer has just been handed to the console.
Handed == pc = 1 /\ frame > 0

\* C6 as stated: the writers of a frame run stats first, then the minimap,
\* then the 3D view, and the buffer is handed over after the three.
C6_StatsMapView == Handed => writers = <<"stats", "draw_map", "update_screen">>

\* C6 as the code has it: the writers of a frame run the 3D view first, then
\* stats, then the minimap, and the buffer is handed over after the three.
C6_ViewStatsMap == Handed => writers = <<"update_screen", "stats", "draw_map">>

C6_Witness == Handed /\ Len(writers) = 3 /\ presented = screen

\* C7: at the handoff, row ny + 1, column nx of the buffer holds 'P' when
\* (nx, ny) is the cell the player's position truncates to and the glyph of
\* the map cell otherwise.
C7_MinimapIntact ==
    Handed =>
        \A nx \in 0 .. (MAP_WIDTH - 1), ny \in 0 .. (MAP_HEIGHT - 1) :
            presented[(ny + 1) * SCREEN_WIDTH + nx] =
                IF nx = AsI32(player.x) /\ ny = AsI32(player.y)
                THEN LetterP
                ELSE init_map[MapIndex(nx, ny)]

\* A first frame that leaves the player in the spawn cell, handed over with
\* 'P' at map cell (8, 8).
C7_Witness ==
    /\ Handed
    /\ AsI32(player.x) = 8 /\ AsI32(player.y) = 8
    /\ presented[9 * SCREEN_WIDTH + 8] = LetterP

====
